---- MODULE Spec2Model ----
(***************************************************************************)
(* Lifetime and error model of the Cython proxies of libgeotess.pyx:       *)
(* GeoTessGrid, GeoTessMetaData, EarthShape and GeoTessModel, each holding *)
(* one raw pointer (thisptr) to a native (C++) resource.                   *)
(*                                                                         *)
(* The native heap is a table of resources; every resource counts how      *)
(* often it was released.  The proxies are the Python objects host code    *)
(* holds.  Host code may construct proxies, call their methods and drop    *)
(* them (which runs __dealloc__) in any order.  A native call on a NULL    *)
(* pointer, on a released resource, at an index outside a grid or a delete *)
(* of a pointer that is not the start of an allocation is undefined        *)
(* behaviour: the process either dies or goes on with garbage.             *)
(***************************************************************************)
EXTENDS Integers, Sequences, FiniteSets, TLC

VARIABLES heap, nres, proxies, nprox, last, crashed

vars == <<heap, nres, proxies, nprox, last, crashed>>

-----------------------------------------------------------------------------
(* Bounds of the model *)

\* The number of proxies host code constructs in a run.
MaxProxies == 3

-----------------------------------------------------------------------------
(* Values *)

NULL == 0

None == 0

Kinds == {"grid", "meta", "shape", "model"}

Classes == {"GeoTessGrid", "GeoTessMetaData", "EarthShape", "GeoTessModel"}

\* Native addresses and Python objects are told apart by number.  One
\* construction allocates at most one resource of each kind, so each kind and
\* each class has a range of MaxProxies numbers of its own.
Base(k) ==
    CASE k \in {"grid", "GeoTessGrid"} -> 0
      [] k \in {"meta", "GeoTessMetaData"} -> MaxProxies
      [] k \in {"shape", "EarthShape"} -> MaxProxies + MaxProxies
      [] k \in {"model", "GeoTessModel"} -> MaxProxies + MaxProxies + MaxProxies

Ids == 1..(Base("model") + MaxProxies)

Slots == Ids

\* The numbers of the proxies of a class.
SlotsOf(cls) == (Base(cls) + 1)..(Base(cls) + MaxProxies)

\* The names the earth shape constructor accepts (class docstring).
ShapeNames == {"SPHERE", "GRS80", "GRS80_RCONST", "WGS84", "WGS84_RCONST"}

\* The names host code passes in this model: a good one and a bad one.
NameInputs == {"WGS84", "BOGUS"}

\* The paths host code passes: a missing file, a well-formed file and an
\* existing file the native loader rejects.
Paths == {"nofile", "fileA", "badfile"}

\* The content of the file system.
FileContent(path) ==
    CASE path = "fileA" -> "A"
      [] path = "badfile" -> "malformed"
      [] OTHER -> "absent"

\* os.path.exists(inputFile)
PathExists(path) == FileContent(path) # "absent"

\* The number of vertices of the grid in the well-formed file.
NVerticesLoaded == 1

\* The values the metadata setters are called with.
SetterValues == {"A"}

\* The vertex indices host code passes: negative, inside and past a loaded
\* grid.
Indices == {0 - 1, 0, NVerticesLoaded}

NoRes == [kind |-> "none", rel |-> 0, val |-> "empty", g |-> NULL, md |-> NULL,
          sh |-> NULL, in |-> NULL]

FreeProxy == [cls |-> "free", thisptr |-> NULL]

Obs(op, exc, native, ptr, ub, arg) ==
    [op |-> op, exc |-> exc, native |-> native, ptr |-> ptr,
     ub |-> ub, arg |-> arg, idx |-> 0, raw |-> FALSE]

-----------------------------------------------------------------------------
(* The native layer *)

\* new T(other): a copy of the resource at src, at the fresh address id.
NativeCopy(h, id, src) ==
    [h EXCEPT ![id] = [NoRes EXCEPT !.kind = h[src].kind, !.val = h[src].val]]

\* new T(...): a fresh resource at address id.
NativeNew(h, id, kind, val) ==
    [h EXCEPT ![id] = [NoRes EXCEPT !.kind = kind, !.val = val]]

\* new GeoTessModel() / new GeoTessModel(gptr, mdptr): the model at address
\* id owns its grid, its metadata and the earth shape embedded in it at sid.
NativeNewModel(h, id, sid, gptr, mdptr) ==
    [h EXCEPT ![id] = [NoRes EXCEPT !.kind = "model", !.g = gptr, !.md = mdptr,
                                     !.sh = sid],
              ![sid] = [NoRes EXCEPT !.kind = "shape", !.val = "WGS84",
                                      !.in = id]]

\* The resources a delete of ptr destroys: the resource and what it owns.
Owned(h, ptr) ==
    {ptr} \cup IF h[ptr].kind = "model"
               THEN {h[ptr].g, h[ptr].md, h[ptr].sh} \ {NULL}
               ELSE {}

\* delete ptr: the destructor runs on the resource and on what it owns, and
\* what they held is gone.
NativeDelete(h, ptr) ==
    [i \in Ids |-> IF i \in Owned(h, ptr)
                   THEN [NoRes EXCEPT !.kind = h[i].kind, !.rel = h[i].rel + 1,
                                      !.val = "freed", !.in = h[i].in]
                   ELSE h[i]]

Released(h, ptr) == h[ptr].rel > 0

\* delete ptr is undefined when ptr was released before, or when ptr points
\* into another resource instead of at an allocation of its own.
DeleteUB(h, ptr) ==
    IF h[ptr].in # NULL THEN "badfree"
    ELSE IF \E i \in Owned(h, ptr) : Released(h, i) THEN "released"
    ELSE "none"

\* A native method that touches only the resource at ptr itself.
UseUBSelf(h, ptr) ==
    IF ptr = NULL THEN "null"
    ELSE IF Released(h, ptr) THEN "released"
    ELSE "none"

\* A native method on ptr is undefined on NULL and on a released resource.
UseUB(h, ptr) ==
    IF ptr = NULL THEN "null"
    ELSE IF \E i \in Owned(h, ptr) : Released(h, i) THEN "released"
    ELSE "none"

\* The number of vertices of a grid with the given content: none in an
\* empty grid.
NVertices(val) ==
    CASE val = "A" -> NVerticesLoaded
      [] val = "partial" -> NVerticesLoaded
      [] OTHER -> 0

\* The native loaders populate the resource in place.  On malformed content
\* they fail after an unknown part of the work.
NativeLoadOutcomes(h, ptr, path) ==
    IF FileContent(path) = "malformed"
    THEN {[exc |-> "LoadError", heap |-> h],
          [exc |-> "LoadError", heap |-> [h EXCEPT ![ptr].val = "partial"]]}
    ELSE {[exc |-> "none", heap |-> [h EXCEPT ![ptr].val = FileContent(path)]]}

\* The native earth shape constructor rejects unknown names.
NativeShapeNameOk(name) == name \in ShapeNames

-----------------------------------------------------------------------------
(* Helpers *)

\* The address the next new of the kind returns.
Fresh(kind) == Base(kind) + nres[kind] + 1

\* The resources allocated by a step.
Allocated(kinds) ==
    nres' = [k \in Kinds |-> IF k \in kinds THEN nres[k] + 1 ELSE nres[k]]

\* The number of proxies constructed so far.
Constructed ==
    nprox["GeoTessGrid"] + nprox["GeoTessMetaData"] + nprox["EarthShape"]
        + nprox["GeoTessModel"]

IsA(p, cls) == proxies[p].cls = cls

\* The outcome of undefined behaviour: the process dies or goes on.
Undefined(ub) ==
    IF ub = "none" THEN crashed' = FALSE ELSE crashed' \in BOOLEAN

\* Host code gets a new proxy of class cls holding ptr.
Bind(cls, ptr) ==
    /\ Constructed < MaxProxies
    /\ proxies' = [proxies EXCEPT ![Base(cls) + nprox[cls] + 1] =
                                   [cls |-> cls, thisptr |-> ptr]]
    /\ nprox' = [nprox EXCEPT ![cls] = nprox[cls] + 1]

\* Host code drops its last reference to proxy p.
Drop(p) == proxies' = [proxies EXCEPT ![p] = FreeProxy]

-----------------------------------------------------------------------------
(* GeoTessGrid *)

\* GeoTessGrid.__cinit__
NewGrid ==
    /\ ~crashed
    /\ Bind("GeoTessGrid", Fresh("grid"))
    /\ heap' = NativeNew(heap, Fresh("grid"), "grid", "empty")
    /\ Allocated({"grid"})
    /\ last' = Obs("GeoTessGrid.__cinit__", "none", "new", Fresh("grid"), "none", "")
    /\ UNCHANGED crashed

\* GeoTessGrid.__dealloc__
DeallocGrid(p) ==
    /\ ~crashed
    /\ IsA(p, "GeoTessGrid")
    /\ LET ptr == proxies[p].thisptr IN
       IF ptr # NULL
       THEN /\ heap' = NativeDelete(heap, ptr)
            /\ last' = Obs("GeoTessGrid.__dealloc__", "none", "delete", ptr,
                           DeleteUB(heap, ptr), "")
            /\ Undefined(DeleteUB(heap, ptr))
       ELSE /\ last' = Obs("GeoTessGrid.__dealloc__", "none", "none", NULL,
                           "none", "")
            /\ UNCHANGED <<heap, crashed>>
    /\ Drop(p)
    /\ UNCHANGED <<nres, nprox>>

\* A loadGrid without the check of the path.
LoadGridUnchecked(path) == TRUE

\* The calls of loadGrid that reach the native loader.
LoadGridCallsNative(path) == PathExists(path)

\* GeoTessGrid.loadGrid
LoadGrid(p, path) ==
    /\ ~crashed
    /\ IsA(p, "GeoTessGrid")
    /\ LET ptr == proxies[p].thisptr IN
       IF LoadGridCallsNative(path)
       THEN \E out \in NativeLoadOutcomes(heap, ptr, path) :
              /\ heap' = out.heap
              /\ last' = Obs("loadGrid", out.exc, "loadGrid", ptr,
                             UseUB(heap, ptr), path)
              /\ Undefined(UseUB(heap, ptr))
       ELSE /\ last' = Obs("loadGrid", "GeoTessFileError", "none", ptr,
                           "none", path)
            /\ UNCHANGED <<heap, crashed>>
    /\ UNCHANGED <<nres, proxies, nprox>>

\* GeoTessGrid.writeGrid, getNLevels, getNTriangles, getNTessellations,
\* toString: each forwards to the native method of the same name and does
\* nothing else.  Host code calls two of them here.
GridMethods == {"getNLevels", "toString"}

GridQuery(p, m) ==
    /\ ~crashed
    /\ IsA(p, "GeoTessGrid")
    /\ LET ptr == proxies[p].thisptr IN
       /\ last' = Obs(m, "none", m, ptr, UseUB(heap, ptr), "")
       /\ Undefined(UseUB(heap, ptr))
    /\ UNCHANGED <<heap, nres, proxies, nprox>>

\* Whether vertex is an index of the grid at ptr.
InRange(h, ptr, vertex) == 0 <= vertex /\ vertex < NVertices(h[ptr].val)

\* The check getVertex makes before it reads the native grid: none.
GetVertexChecked(h, ptr, vertex) == TRUE

\* GeoTessGrid.getVertex
GetVertex(p, vertex) ==
    /\ ~crashed
    /\ IsA(p, "GeoTessGrid")
    /\ LET ptr == proxies[p].thisptr
           ub == IF UseUB(heap, ptr) # "none" THEN UseUB(heap, ptr)
                 ELSE IF InRange(heap, ptr, vertex) THEN "none" ELSE "oob"
       IN
       IF GetVertexChecked(heap, ptr, vertex)
       THEN /\ last' = [Obs("getVertex", "none", "getVertex", ptr, ub, "")
                          EXCEPT !.idx = vertex]
            /\ Undefined(ub)
       ELSE /\ last' = [Obs("getVertex", "IndexError", "none", ptr, "none", "")
                          EXCEPT !.idx = vertex]
            /\ UNCHANGED crashed
    /\ UNCHANGED <<heap, nres, proxies, nprox>>

-----------------------------------------------------------------------------
(* GeoTessMetaData *)

\* GeoTessMetaData.__cinit__
NewMetaData ==
    /\ ~crashed
    /\ Bind("GeoTessMetaData", Fresh("meta"))
    /\ heap' = NativeNew(heap, Fresh("meta"), "meta", "empty")
    /\ Allocated({"meta"})
    /\ last' = Obs("GeoTessMetaData.__cinit__", "none", "new", Fresh("meta"),
                   "none", "")
    /\ UNCHANGED crashed

\* GeoTessMetaData.__dealloc__
DeallocMetaData(p) ==
    /\ ~crashed
    /\ IsA(p, "GeoTessMetaData")
    /\ LET ptr == proxies[p].thisptr IN
       IF ptr # NULL
       THEN /\ heap' = NativeDelete(heap, ptr)
            /\ last' = Obs("GeoTessMetaData.__dealloc__", "none", "delete",
                           ptr, DeleteUB(heap, ptr), "")
            /\ Undefined(DeleteUB(heap, ptr))
       ELSE /\ last' = Obs("GeoTessMetaData.__dealloc__", "none", "none",
                           NULL, "none", "")
            /\ UNCHANGED <<heap, crashed>>
    /\ Drop(p)
    /\ UNCHANGED <<nres, nprox>>

\* GeoTessMetaData.setEarthShape, setDescription, setLayerNames,
\* setLayerTessIds, setAttributes, setDataType, setModelSoftwareVersion,
\* setModelGenerationDate: each forwards its arguments to the native setter,
\* which writes them into the resource.  Host code calls one of them here.
MetaSetters == {"setDescription"}

MetaSet(p, m, v) ==
    /\ ~crashed
    /\ IsA(p, "GeoTessMetaData")
    /\ LET ptr == proxies[p].thisptr IN
       /\ heap' = [heap EXCEPT ![ptr].val = v]
       /\ last' = Obs(m, "none", m, ptr, UseUB(heap, ptr), v)
       /\ Undefined(UseUB(heap, ptr))
    /\ UNCHANGED <<nres, proxies, nprox>>

\* GeoTessMetaData.toString
MetaToString(p) ==
    /\ ~crashed
    /\ IsA(p, "GeoTessMetaData")
    /\ LET ptr == proxies[p].thisptr IN
       /\ last' = Obs("toString", "none", "toString", ptr, UseUB(heap, ptr), "")
       /\ Undefined(UseUB(heap, ptr))
    /\ UNCHANGED <<heap, nres, proxies, nprox>>

-----------------------------------------------------------------------------
(* EarthShape *)

\* EarthShape.__cinit__.  When the native constructor raises, thisptr is still
\* NULL and the __dealloc__ of the failed object deletes nothing.  With raw
\* the object is returned with thisptr NULL.
NewEarthShape(earthShape, raw) ==
    /\ ~crashed
    /\ IF ~raw
       THEN IF NativeShapeNameOk(earthShape)
            THEN /\ Bind("EarthShape", Fresh("shape"))
                 /\ heap' = NativeNew(heap, Fresh("shape"), "shape", earthShape)
                 /\ Allocated({"shape"})
                 /\ last' = [Obs("EarthShape.__cinit__", "none", "new",
                                 Fresh("shape"), "none", earthShape)
                             EXCEPT !.raw = raw]
            ELSE /\ last' = [Obs("EarthShape.__cinit__", "InvalidArgument",
                                 "new", NULL, "none", earthShape)
                             EXCEPT !.raw = raw]
                 /\ UNCHANGED <<heap, nres, proxies, nprox>>
       ELSE /\ Bind("EarthShape", NULL)
            /\ last' = [Obs("EarthShape.__cinit__", "none", "none", NULL,
                            "none", earthShape) EXCEPT !.raw = raw]
            /\ UNCHANGED <<heap, nres>>
    /\ UNCHANGED crashed

\* EarthShape.__dealloc__
DeallocEarthShape(p) ==
    /\ ~crashed
    /\ IsA(p, "EarthShape")
    /\ LET ptr == proxies[p].thisptr IN
       IF ptr # NULL
       THEN /\ heap' = NativeDelete(heap, ptr)
            /\ last' = Obs("EarthShape.__dealloc__", "none", "delete", ptr,
                           DeleteUB(heap, ptr), "")
            /\ Undefined(DeleteUB(heap, ptr))
       ELSE /\ last' = Obs("EarthShape.__dealloc__", "none", "none", NULL,
                           "none", "")
            /\ UNCHANGED <<heap, crashed>>
    /\ Drop(p)
    /\ UNCHANGED <<nres, nprox>>

\* EarthShape.getLonDegrees, getLatDegrees, getVectorDegrees: each calls the
\* native method of the same name on thisptr.
ShapeMethods == {"getLonDegrees", "getLatDegrees", "getVectorDegrees"}

ShapeMethod(p, m) ==
    /\ ~crashed
    /\ IsA(p, "EarthShape")
    /\ LET ptr == proxies[p].thisptr IN
       /\ last' = Obs(m, "none", m, ptr, UseUB(heap, ptr), "")
       /\ Undefined(UseUB(heap, ptr))
    /\ UNCHANGED <<heap, nres, proxies, nprox>>

\* EarthShape.wrap: the pointer the new proxy holds.
wrap(cptr) == cptr

-----------------------------------------------------------------------------
(* GeoTessModel *)

\* The test of the arguments with the wrong count.
ExactlyOneGivenWrongSum(grid, metaData) ==
    (IF grid = None THEN 1 ELSE 0) + (IF metaData = None THEN 1 ELSE 0) = 2

\* sum((grid is None, metaData is None)) == 1
ExactlyOneGiven(grid, metaData) ==
    (IF grid = None THEN 1 ELSE 0) + (IF metaData = None THEN 1 ELSE 0) = 1

\* A model built on the callers' own grid and metadata.
ModelPartsAliased(gsrc, mdsrc, gnew, mdnew) == [g |-> gsrc, md |-> mdsrc]

\* gptr and mdptr: the model is built on copies at fresh addresses.
ModelParts(gsrc, mdsrc, gnew, mdnew) == [g |-> gnew, md |-> mdnew]

Given(grid, metaData) ==
    IF grid = None /\ metaData = None THEN "neither"
    ELSE IF grid = None THEN "metaData"
    ELSE IF metaData = None THEN "grid"
    ELSE "both"

\* GeoTessModel.__cinit__.  The ValueError is raised before any new: thisptr
\* is still NULL and the __dealloc__ of the failed object deletes nothing.
NewModel(grid, metaData) ==
    /\ ~crashed
    /\ grid # None => IsA(grid, "GeoTessGrid")
    /\ metaData # None => IsA(metaData, "GeoTessMetaData")
    /\ IF grid = None /\ metaData = None
       THEN /\ Bind("GeoTessModel", Fresh("model"))
            /\ heap' = NativeNewModel(heap, Fresh("model"), Fresh("shape"), NULL,
                                      NULL)
            /\ Allocated({"model", "shape"})
            /\ last' = Obs("GeoTessModel.__cinit__", "none", "new", Fresh("model"),
                           "none", Given(grid, metaData))
            /\ UNCHANGED crashed
       ELSE IF ExactlyOneGiven(grid, metaData)
       THEN /\ last' = Obs("GeoTessModel.__cinit__", "ValueError", "none",
                           NULL, "none", Given(grid, metaData))
            /\ UNCHANGED <<heap, nres, proxies, nprox, crashed>>
       ELSE IF grid = None \/ metaData = None
       THEN \* deref of the thisptr of None
            /\ last' = Obs("GeoTessModel.__cinit__", "none", "new", NULL,
                           "null", Given(grid, metaData))
            /\ crashed' = TRUE
            /\ UNCHANGED <<heap, nres, proxies, nprox>>
       ELSE LET gsrc == proxies[grid].thisptr
                mdsrc == proxies[metaData].thisptr
                parts == ModelParts(gsrc, mdsrc, Fresh("grid"), Fresh("meta"))
                copied == NativeCopy(NativeCopy(heap, Fresh("grid"), gsrc),
                                     Fresh("meta"), mdsrc)
            IN
            /\ Bind("GeoTessModel", Fresh("model"))
            /\ heap' = NativeNewModel(copied, Fresh("model"), Fresh("shape"),
                                      parts.g, parts.md)
            /\ Allocated(Kinds)
            /\ last' = Obs("GeoTessModel.__cinit__", "none", "new", Fresh("model"),
                           "none", Given(grid, metaData))
            /\ UNCHANGED crashed

\* GeoTessModel.__dealloc__
DeallocModel(p) ==
    /\ ~crashed
    /\ IsA(p, "GeoTessModel")
    /\ LET ptr == proxies[p].thisptr IN
       IF ptr # NULL
       THEN /\ heap' = NativeDelete(heap, ptr)
            /\ last' = Obs("GeoTessModel.__dealloc__", "none", "delete", ptr,
                           DeleteUB(heap, ptr), "")
            /\ Undefined(DeleteUB(heap, ptr))
       ELSE /\ last' = Obs("GeoTessModel.__dealloc__", "none", "none", NULL,
                           "none", "")
            /\ UNCHANGED <<heap, crashed>>
    /\ Drop(p)
    /\ UNCHANGED <<nres, nprox>>

\* The calls of loadModel that reach the native loader.
LoadModelCallsNative(path) == PathExists(path)

\* GeoTessModel.loadModel
LoadModel(p, path) ==
    /\ ~crashed
    /\ IsA(p, "GeoTessModel")
    /\ LET ptr == proxies[p].thisptr IN
       IF LoadModelCallsNative(path)
       THEN \E out \in NativeLoadOutcomes(heap, ptr, path) :
              /\ heap' = out.heap
              /\ last' = Obs("loadModel", out.exc, "loadModel", ptr,
                             UseUB(heap, ptr), path)
              /\ Undefined(UseUB(heap, ptr))
       ELSE /\ last' = Obs("loadModel", "GeoTessFileError", "none", ptr,
                           "none", path)
            /\ UNCHANGED <<heap, crashed>>
    /\ UNCHANGED <<nres, proxies, nprox>>

\* GeoTessModel.writeModel, toString: each forwards to the native method,
\* which reads the model and what it owns.
ModelMethods == {"writeModel", "toString"}

ModelMethod(p, m) ==
    /\ ~crashed
    /\ IsA(p, "GeoTessModel")
    /\ LET ptr == proxies[p].thisptr IN
       /\ last' = Obs(m, "none", m, ptr, UseUB(heap, ptr), "")
       /\ Undefined(UseUB(heap, ptr))
    /\ UNCHANGED <<heap, nres, proxies, nprox>>

\* GeoTessModel.getEarthShape: the address of the shape inside the model,
\* wrapped in a new EarthShape.
GetEarthShape(p) ==
    /\ ~crashed
    /\ IsA(p, "GeoTessModel")
    /\ LET ptr == proxies[p].thisptr IN
       /\ Bind("EarthShape", wrap(heap[ptr].sh))
       /\ last' = Obs("getEarthShape", "none", "getEarthShape", ptr,
                      UseUBSelf(heap, ptr), "")
       /\ Undefined(UseUBSelf(heap, ptr))
    /\ UNCHANGED <<heap, nres>>

-----------------------------------------------------------------------------

Init ==
    /\ heap = [i \in Ids |-> NoRes]
    /\ nres = [k \in Kinds |-> 0]
    /\ proxies = [p \in Slots |-> FreeProxy]
    /\ nprox = [c \in Classes |-> 0]
    /\ last = Obs("init", "none", "none", NULL, "none", "")
    /\ crashed = FALSE

Grids == SlotsOf("GeoTessGrid")

Metas == SlotsOf("GeoTessMetaData")

Shapes == SlotsOf("EarthShape")

Models == SlotsOf("GeoTessModel")

Next ==
    \/ NewGrid
    \/ \E p \in Grids : DeallocGrid(p)
    \/ \E p \in Grids, path \in Paths : LoadGrid(p, path)
    \/ \E p \in Grids, m \in GridMethods : GridQuery(p, m)
    \/ \E p \in Grids, i \in Indices : GetVertex(p, i)
    \/ NewMetaData
    \/ \E p \in Metas : DeallocMetaData(p)
    \/ \E p \in Metas, m \in MetaSetters, v \in SetterValues : MetaSet(p, m, v)
    \/ \E p \in Metas : MetaToString(p)
    \/ \E name \in NameInputs, raw \in BOOLEAN : NewEarthShape(name, raw)
    \/ \E p \in Shapes : DeallocEarthShape(p)
    \/ \E p \in Shapes, m \in ShapeMethods : ShapeMethod(p, m)
    \/ \E g \in Grids \cup {None}, md \in Metas \cup {None} : NewModel(g, md)
    \/ \E p \in Models : DeallocModel(p)
    \/ \E p \in Models, path \in Paths : LoadModel(p, path)
    \/ \E p \in Models, m \in ModelMethods : ModelMethod(p, m)
    \/ \E p \in Models : GetEarthShape(p)

Spec == Init /\ [][Next]_vars

-----------------------------------------------------------------------------
(* Properties *)

\* The native models host code holds a proxy of.
LiveModels(px) == {px[p].thisptr : p \in {q \in Models : px[q].cls = "GeoTessModel"}}

\* The grid and metadata resources the model at address m is built on.
PartsOf(h, m) == {h[m].g, h[m].md} \ {NULL}

\* The native resources the grid and metadata proxies of host code hold.
CallerResources(px) ==
    {px[p].thisptr : p \in {q \in Grids \cup Metas :
                              px[q].cls \in {"GeoTessGrid", "GeoTessMetaData"}}}

\* C1: over any sequence of constructions, getEarthShape calls and discards,
\* a delete is only ever applied to a resource the discarded proxy owns (a
\* borrowed view never releases), and no native resource is released more
\* than once.
C1_ReleasedAtMostOnce ==
    /\ \A i \in Ids : heap[i].rel <= 1
    /\ (last.native = "delete" => heap[last.ptr].in = NULL)

\* C2: discarding an EarthShape view obtained from getEarthShape does not
\* destroy the shape of the model: the shape resource of every model host
\* code still holds is live.
C2_ModelShapeStaysLive ==
    \A m \in LiveModels(proxies) : ~Released(heap, heap[m].sh)

\* C3: a model built from a grid and a metadata proxy is built on copies
\* whose addresses differ from the callers' resources; a later loadGrid,
\* setter or discard on a grid or metadata proxy leaves the grid and metadata
\* of every model unchanged and live, and discarding a model leaves the
\* resources of the grid and metadata proxies unchanged and live.
C3_CopyIsolation ==
    [][/\ \A m \in LiveModels(proxies') :
             PartsOf(heap', m) \cap CallerResources(proxies') = {}
       /\ (last'.op \in {"loadGrid", "GeoTessGrid.__dealloc__",
                          "GeoTessMetaData.__dealloc__"} \cup MetaSetters)
            => \A m \in LiveModels(proxies) : \A i \in PartsOf(heap, m) :
                   heap'[i] = heap[i] /\ ~Released(heap', i)
       /\ last'.op = "GeoTessModel.__dealloc__"
            => \A i \in CallerResources(proxies) :
                   heap'[i] = heap[i] /\ ~Released(heap', i)]_vars

\* C3 happens: host code holds a model built from parts and a grid proxy,
\* the grid proxy has just loaded a file, and the grid of the model is still
\* the empty grid it was copied from.
C3_Witness ==
    /\ last.op = "loadGrid"
    /\ last.exc = "none"
    /\ heap[last.ptr].val = "A"
    /\ \E m \in LiveModels(proxies) :
          /\ heap[m].g # NULL
          /\ heap[heap[m].g].val = "empty"
          /\ heap[heap[m].md].val = "empty"

\* C4: the construction of a GeoTessModel raises ValueError if and only if
\* exactly one of grid and metaData is given, and then allocates nothing and
\* yields no proxy; with neither it allocates an empty model; with both it
\* builds the model on two freshly allocated copies.
C4_BothOrNeither ==
    [][last'.op = "GeoTessModel.__cinit__" =>
         /\ last'.exc = "ValueError" <=> last'.arg \in {"grid", "metaData"}
         /\ last'.exc \in {"ValueError", "none"}
         /\ last'.exc = "ValueError" =>
               /\ heap' = heap /\ nres' = nres /\ proxies' = proxies
               /\ last'.native = "none" /\ last'.ptr = NULL /\ ~crashed'
         /\ last'.arg = "neither" =>
               /\ last'.ptr \in LiveModels(proxies') \ LiveModels(proxies)
               /\ heap[last'.ptr].kind = "none"
               /\ heap'[last'.ptr].kind = "model"
               /\ PartsOf(heap', last'.ptr) = {}
         /\ last'.arg = "both" =>
               /\ last'.ptr \in LiveModels(proxies') \ LiveModels(proxies)
               /\ heap'[last'.ptr].kind = "model"
               /\ heap'[last'.ptr].g # NULL /\ heap'[last'.ptr].md # NULL
               /\ \A i \in PartsOf(heap', last'.ptr) :
                     heap[i].kind = "none" /\ heap'[i].kind \in {"grid", "meta"}]_vars

\* C4 happens: a construction with a grid and no metadata has just raised
\* ValueError.
C4_Witness ==
    /\ last.op = "GeoTessModel.__cinit__"
    /\ last.arg = "grid"
    /\ last.exc = "ValueError"

\* C5: loadGrid and loadModel with a path that is no existing file raise
\* GeoTessFileError, do not call the native loader and leave every resource
\* and proxy as it was; the native loader is called only with the path of an
\* existing file.
C5_MissingFileNotLoaded ==
    [][last'.op \in {"loadGrid", "loadModel"} =>
         /\ ~PathExists(last'.arg) =>
               /\ last'.exc = "GeoTessFileError"
               /\ last'.native = "none"
               /\ heap' = heap /\ proxies' = proxies /\ nres' = nres
               /\ ~crashed'
         /\ last'.native # "none" => PathExists(last'.arg)
         /\ last'.exc = "GeoTessFileError" => ~PathExists(last'.arg)]_vars

\* C5 happens: loadGrid on a loaded grid has just raised GeoTessFileError.
C5_Witness ==
    /\ last.op = "loadGrid"
    /\ last.exc = "GeoTessFileError"
    /\ last.arg = "nofile"
    /\ heap[last.ptr].val = "A"

\* C6: the construction of an EarthShape succeeds for every name of
\* ShapeNames and yields a proxy that owns a native shape; for any other
\* name it raises the invalid-argument error and yields no proxy and no
\* native resource.
C6_ShapeNameChecked ==
    last.op = "EarthShape.__cinit__" =>
        IF last.arg \in ShapeNames
        THEN /\ last.exc = "none"
             /\ last.ptr # NULL
             /\ heap[last.ptr].kind = "shape"
             /\ heap[last.ptr].in = NULL
        ELSE /\ last.exc = "InvalidArgument"
             /\ last.ptr = NULL

\* C7: getVertex with an index outside the grid raises IndexError and does
\* not read the native grid at that index.
C7_GetVertexRangeChecked ==
    (last.op = "getVertex" /\ ~InRange(heap, last.ptr, last.idx)) =>
        /\ last.exc = "IndexError"
        /\ last.native = "none"

\* C8: a loadGrid or loadModel that the native loader rejects raises the
\* load error and leaves every resource as it was before the call.
C8_FailedLoadKeepsResource ==
    [][(last'.op \in {"loadGrid", "loadModel"} /\ last'.native # "none"
          /\ FileContent(last'.arg) = "malformed") =>
         /\ last'.exc = "LoadError"
         /\ heap' = heap]_vars

\* C9: no proxy method operates on a native resource that has been released.
C9_NoUseAfterRelease ==
    last.native \notin {"none", "new", "delete"} => last.ub # "released"

\* C10: no method of a proxy host code holds dereferences a NULL thisptr.
C10_NoNullDereference ==
    last.native \notin {"none", "new", "delete"} => last.ub # "null"

====
